---- MODULE Spec2Model ----
(***************************************************************************)
(* Fractal tree / star geometry generation, bake and load pipeline.        *)
(*                                                                         *)
(* Arithmetic is exact: reals that the code computes are rationals         *)
(* <<n, d>> where they are rational, and terms (polar offsets, rotation    *)
(* chains) where Math.pow / Math.cos / normalize make them irrational.     *)
(* A Float32Array slot holds the float32 rounding of what is stored.       *)
(***************************************************************************)
EXTENDS Integers, Sequences, FiniteSets, TLC

VARIABLES
    input,      \* the params object handed to the FractalTree constructors
    trees,      \* the FractalTree objects: params, matrices, mesh
    calls,      \* per tree, the recursion path of the call that pushed each matrix
    scene,      \* scene.children, in insertion order
    disposed,   \* ids of the meshes dispose() was called on
    nextId,     \* identity of the next object created
    blob,       \* the Float32Array returned by getMatrices()
    geometries, \* the geometries handed to manualMerge
    merged,     \* the MergedMesh manualMerge returned
    starJSON,   \* the star.json document the bake script wrote
    loadedStar, \* the geometry loadFromData built from the parsed document
    options,    \* the options object handed to the FractalStar constructor
    fractalStar, \* the FractalStar object: maxLevel, radius, group and its descendants
    treeFile,   \* what the server holds for ./tree.bin
    starFile,   \* what the server holds for ./star.json
    pc,         \* where init() is suspended
    requested,  \* the URLs fetch() was called with
    treeMatrices, \* loadGeometry's treeMatrices
    tree,       \* main.js's `tree'
    star,       \* main.js's `star'
    fallbacks,  \* how often the catch block of init() ran
    initResult, \* the promise init() returned
    constructed, \* the constructor calls of init(), in order
    keys,       \* the codes of the keys that are held down
    controls    \* the FractalControls object: its movement flags

treeVars == <<input, trees, calls, scene, disposed, nextId, blob>>
starVars == <<geometries, merged, starJSON, loadedStar, options, fractalStar>>

loadVars == <<treeFile, starFile, pc, requested, treeMatrices, tree, star, fallbacks,
              initResult, constructed>>
controlVars == <<keys, controls>>

initVars == <<loadVars, controlVars>>

vars == <<treeVars, starVars, initVars>>

-----------------------------------------------------------------------------
(* Bounds of the model *)

MaxLevelIn == 2
MaxRing == 2
MaxBranch == 4
MaxInstances == 21
MaxGenerate == 2
MaxGeoms == 2
MaxVerts == 2
MaxTreeBytes == 130
MaxStarLevel == 2
MaxUpdates == 2
MaxMeshes == 15
MaxBinMatrices == 1

\* The two FractalTree objects a behaviour builds
Slots == {1, 2}

-----------------------------------------------------------------------------
(* Exact rationals <<n, d>>, d > 0, in lowest terms *)

Abs(a) == IF a < 0 THEN -a ELSE a

RECURSIVE GCD(_, _)
GCD(a, b) == IF b = 0 THEN a ELSE GCD(b, a % b)

R(n, d) ==
    LET g == GCD(Abs(n), Abs(d))
        s == IF d < 0 THEN -1 ELSE 1
    IN  IF g = 0 THEN <<0, 1>> ELSE <<(s * n) \div g, (s * d) \div g>>

RMul(a, b) == R(a[1] * b[1], a[2] * b[2])
RAdd(a, b) == R(a[1] * b[2] + b[1] * a[2], a[2] * b[2])
RSub(a, b) == R(a[1] * b[2] - b[1] * a[2], a[2] * b[2])
RLe(a, b) == a[1] * b[2] <= b[1] * a[2]
RLt(a, b) == a[1] * b[2] < b[1] * a[2]
RInt(n) == <<n, 1>>
RZero == <<0, 1>>
ROne == <<1, 1>>

RECURSIVE Flatten(_)
Flatten(ss) == IF ss = <<>> THEN <<>> ELSE Head(ss) \o Flatten(Tail(ss))

RECURSIVE IntPow(_, _)
IntPow(n, k) == IF k <= 0 THEN 1 ELSE n * IntPow(n, k - 1)

\* 1 + n + ... + n^(L-1)
RECURSIVE GeometricSum(_, _)
GeometricSum(n, L) == IF L <= 0 THEN 0 ELSE IntPow(n, L - 1) + GeometricSum(n, L - 1)

-----------------------------------------------------------------------------
(* FractalTree: parameters *)

IntKeys == {"maxLevel", "ringCount", "branchesPerRing"}
RealKeys == {"height", "radius", "ringOffset", "scaleFactor", "taperStart",
             "spineWidthRatio"}
Keys == IntKeys \cup RealKeys

\* The right-hand sides of `params.x || default'; ringOffset is in degrees.
Defaults ==
    [maxLevel |-> 3, height |-> RInt(10), radius |-> RInt(4), ringCount |-> 8,
     branchesPerRing |-> 6, ringOffset |-> RZero, scaleFactor |-> R(6, 10),
     taperStart |-> RZero, spineWidthRatio |-> ROne]

\* JavaScript falsiness of a numeric property value
Falsy(k, v) == IF k \in IntKeys THEN v = 0 ELSE v[1] = 0

\* params.k || Defaults.k, where a missing property reads as undefined
OrDefault(params, k) ==
    IF k \in DOMAIN params /\ ~Falsy(k, params[k]) THEN params[k] ELSE Defaults[k]

\* The properties that params owns with the value undefined: a params object
\* lists them under "undefined", next to its properties that hold numbers
UndefinedKeys(params) ==
    IF "undefined" \in DOMAIN params THEN params.undefined ELSE {}

\* this.params = { k: params.k || default, ..., ...params }: the spread comes
\* last and overwrites every property that params owns, with undefined too.
\* this.params lists its undefined properties like a params object does; what
\* it holds for them under their own name is never read.
TreeParams(params) ==
    [k \in Keys |-> IF k \in DOMAIN params THEN params[k] ELSE OrDefault(params, k)]
    @@ [undefined |-> UndefinedKeys(params)]

IsUndefined(p, k) == k \in p.undefined

\* Mutant: the loop body runs once before the bound is looked at
LoopAtLeastOnce(p, k) ==
    IF IsUndefined(p, k) \/ p[k] < 1 THEN 1 ELSE p[k]

\* How often `for (let i = 0; i < this.params.k; i++)' runs: i < undefined is
\* false for every i
LoopCount(p, k) ==
    IF IsUndefined(p, k) \/ p[k] < 0 THEN 0 ELSE p[k]

-----------------------------------------------------------------------------
(* FractalTree: the recursion *)

Vec3(x, y, z) == [x |-> x, y |-> y, z |-> z]
MultiplyScalar(v, s) == Vec3(RMul(v.x, s), RMul(v.y, s), RMul(v.z, s))

Origin == <<>>          \* rootPos: new THREE.Vector3(0, 0, 0)
Identity == <<>>        \* rootRot: new THREE.Quaternion()

\* i / (ringCount - 1 || 1)
RingT(i, ringCount) == R(i, IF ringCount - 1 = 0 THEN 1 ELSE ringCount - 1)

\* A division by zero gives no exception but an infinity or NaN; as pairs
\* they have the denominator 0
NaN == <<0, 0>>
Infinity == <<1, 0>>

\* a / b of JavaScript numbers: a zero divisor gives NaN or an infinity
RDiv(a, b) ==
    IF b[1] = 0
    THEN IF a[1] = 0 THEN NaN ELSE IF a[1] < 0 THEN <<-1, 0>> ELSE Infinity
    ELSE R(a[1] * b[2], a[2] * b[1])

\* Math.max(0, x)
MaxZero(x) ==
    IF x = NaN THEN NaN
    ELSE IF x[1] < 0 THEN RZero ELSE x

\* Math.max(0, (t - taperStart) / (1 - taperStart))
EffectiveT(t, taperStart) == MaxZero(RDiv(RSub(t, taperStart), RSub(ROne, taperStart)))

\* Mutant: the taper reads effectiveT
RadiusEffectiveT(t, effectiveT) == effectiveT

\* The argument of the taper, Math.pow(1 - t, 1.2): t itself; effectiveT is
\* computed one line above and not read
RadiusT(t, effectiveT) == t

\* currentRadius * Math.pow(1 - t, 1.2): the term <<base, 1 - t>>, zero exactly
\* when one of the two is
RadiusAtY(currentRadius, t) ==
    LET u == RSub(ROne, t)
    IN  IF u[1] = 0 \/ currentRadius[1] = 0
        THEN [base |-> RZero, u |-> RZero]
        ELSE [base |-> currentRadius, u |-> u]

\* Mutant: the angle of a branch is the offset of its ring
AngleOfRing(i, j, p) == RMul(RInt(i), p.ringOffset)

\* (j / branchesPerRing) * Math.PI * 2 + ringRotationOffset, in degrees
Angle(i, j, p) ==
    RAdd(R(360 * j, p.branchesPerRing), RMul(RInt(i), p.ringOffset))

\* (cos(angle) * radiusAtY, localY, sin(angle) * radiusAtY) in polar form; the
\* angle drops out when the radius is zero
LocalPos(angle, radiusAtY, localY) ==
    [angle |-> IF radiusAtY.base[1] = 0 THEN RZero ELSE angle,
     r |-> radiusAtY, y |-> localY]

\* parentPos.clone().add(localPos.clone().applyQuaternion(parentRot))
ChildPos(parentPos, parentRot, localPos) ==
    IF localPos.r.base[1] = 0 /\ localPos.y[1] = 0
    THEN parentPos
    ELSE Append(parentPos, [rot |-> parentRot, local |-> localPos])

\* setFromUnitVectors(up, lerp(outwardWorld, upWorld, t).normalize()): at t = 1
\* the lerp is upWorld whatever the angle
ChildRot(parentRot, angle, t) ==
    Append(parentRot, [angle |-> IF t = ROne THEN RZero ELSE angle, t |-> t])

\* Mutant: the decay has no floor
SizeDecayToZero(t) == RSub(ROne, t)

\* (1 - t) * 0.7 + 0.3
SizeDecay(t) == RAdd(RMul(RSub(ROne, t), R(7, 10)), R(3, 10))

\* matrix.compose(position, quaternion, scale)
Compose(pos, rot, scale) == [pos |-> pos, rot |-> rot, scale |-> scale]

\* Mutant: the matrix is pushed after the loops over the children
RecurseThenPush(own, children) == children \o own

\* this.matrices.push(matrix) comes before the loops over the children
PushThenRecurse(own, children) == own \o children

\* Mutant: the depth check lets level = maxLevel through
DepthReachedLate(level, p) == level > p.maxLevel

\* Whether the call at `level' returns before pushing anything; level >=
\* undefined is false
DepthReached(level, p) == ~IsUndefined(p, "maxLevel") /\ level >= p.maxLevel

\* The calls the engine's stack has room for, more than any maxLevel of the
\* model
CallStackLimit == MaxLevelIn + 2

\* Whether the call at `level' or a call below it exceeds the call stack
\* (RangeError). The calls of one level differ in nothing the depth check
\* reads, so the first child stands for all of them.
RECURSIVE Overflows(_, _)
Overflows(p, level) ==
    IF DepthReached(level, p) THEN FALSE
    ELSE IF level >= CallStackLimit THEN TRUE
    ELSE /\ LoopCount(p, "ringCount") > 0
         /\ LoopCount(p, "branchesPerRing") > 0
         /\ Overflows(p, level + 1)

\* recursiveGeneration(parentPos, parentRot, parentScale, level): the matrices
\* it pushes, in push order, each with the path (ring, branch)* of its call
RECURSIVE RecursiveGeneration(_, _, _, _, _, _)
RecursiveGeneration(p, parentPos, parentRot, parentScale, level, path) ==
    IF DepthReached(level, p) THEN <<>>
    ELSE
    LET visualScale == Vec3(RMul(parentScale.x, p.spineWidthRatio), parentScale.y,
                            RMul(parentScale.z, p.spineWidthRatio))
        matrix == Compose(parentPos, parentRot, visualScale)
        currentHeight == parentScale.y
        currentRadius == RMul(parentScale.x, p.spineWidthRatio)
        Child(i, j) ==
            LET t == RingT(i, p.ringCount)
                localY == RMul(t, currentHeight)
                effectiveT == EffectiveT(t, p.taperStart)
                radiusAtY == RadiusAtY(currentRadius, RadiusT(t, effectiveT))
                angle == Angle(i, j, p)
                localPos == LocalPos(angle, radiusAtY, localY)
                childPos == ChildPos(parentPos, parentRot, localPos)
                childRot == ChildRot(parentRot, angle, t)
                scaleFactor == RMul(p.scaleFactor, SizeDecay(t))
                childScale == MultiplyScalar(parentScale, scaleFactor)
            IN  RecursiveGeneration(p, childPos, childRot, childScale, level + 1,
                                    Append(path, <<i, j>>))
        Ring(i) == Flatten([jj \in 1..LoopCount(p, "branchesPerRing") |-> Child(i, jj - 1)])
        rings == Flatten([ii \in 1..LoopCount(p, "ringCount") |-> Ring(ii - 1)])
    IN  PushThenRecurse(<<[path |-> path, matrix |-> matrix]>>, rings)

-----------------------------------------------------------------------------
(* Matrices, typed arrays and meshes *)

\* One of the 16 numbers of a Matrix4 (matrix.elements[k]), a double
Element(matrix, k) == [m |-> matrix, k |-> k, f32 |-> FALSE]

\* What a Float32Array slot holds after a number is stored in it
Fround(e) == [e EXCEPT !.f32 = TRUE]

ZeroMatrix == Compose(Origin, Identity, Vec3(RZero, RZero, RZero))
\* A slot of a freshly allocated Float32Array
ZeroSlot == [m |-> ZeroMatrix, k |-> 0, f32 |-> TRUE]

NewFloat32Array(n) == [s \in 1..n |-> ZeroSlot]

\* matrix.toArray(array, offset) into a Float32Array
ToArray(matrix, array, offset) ==
    [s \in DOMAIN array |->
        IF s - 1 >= offset /\ s - 1 < offset + 16
        THEN Fround(Element(matrix, s - 1 - offset))
        ELSE array[s]]

\* for (i = 0; i < matrices.length; i++) write matrices[i] at i * stride
RECURSIVE WriteMatrices(_, _, _, _)
WriteMatrices(matrices, array, i, stride) ==
    IF i >= Len(matrices) THEN array
    ELSE WriteMatrices(matrices, ToArray(matrices[i + 1], array, i * stride),
                       i + 1, stride)

\* typedArray.set(source): every source element is stored from slot 0 on
SetArray(array, source) ==
    [s \in DOMAIN array |-> IF s <= Len(source) THEN Fround(source[s]) ELSE array[s]]

NoMesh == [id |-> 0, count |-> RZero, instanceMatrix |-> <<>>]

\* new THREE.InstancedMesh(geometry, material, count)
InstancedMesh(id, count, instanceMatrix) ==
    [id |-> id, count |-> count, instanceMatrix |-> instanceMatrix]

\* scene.remove(mesh) and scene.add(mesh)
SceneRemove(children, id) == SelectSeq(children, LAMBDA o : o.id # id)
SceneAdd(children, obj) == Append(SceneRemove(children, obj.id), obj)

-----------------------------------------------------------------------------
(* FractalTree: the object *)

NoTree == [built |-> "none", params |-> TreeParams(<<>>), matrices |-> <<>>,
           mesh |-> NoMesh, gens |-> 0, source |-> NoMesh]

\* Mutant: generate() keeps the matrices of the previous run
KeepMatrices(matrices) == matrices

\* this.matrices = [] at the head of generate()
ResetMatrices(matrices) == <<>>

\* this.matrices after the reset of generate() and the pushes of the calls, and
\* beside it the call path of every entry
Collected(pushed, matrices, paths) ==
    [matrices |-> ResetMatrices(matrices) \o [n \in 1..Len(pushed) |-> pushed[n].matrix],
     paths |-> ResetMatrices(paths) \o [n \in 1..Len(pushed) |-> pushed[n].path]]

\* The matrices and paths generate() leaves, starting from this.matrices
Generated(p, matrices, paths) ==
    Collected(RecursiveGeneration(p, Origin, Identity, Vec3(p.radius, p.height, p.radius),
                                  0, <<>>),
              matrices, paths)

\* What the first call of every level has pushed when the call stack runs out:
\* the chain of first children (ring 0, branch 0), one per level
PushedBeforeOverflow(p, matrices, paths) ==
    Generated([p EXCEPT !.ringCount = 1, !.branchesPerRing = 1,
                        !.maxLevel = CallStackLimit, !.undefined = {}],
              matrices, paths)

\* The mesh generate() builds from this.matrices
GeneratedMesh(id, matrices) ==
    InstancedMesh(id, RInt(Len(matrices)),
                  WriteMatrices(matrices, NewFloat32Array(Len(matrices) * 16), 0, 16))

\* Mutant: the byte stride of a matrix taken for its float stride
MatrixCountBytes(matrixData) == R(Len(matrixData), 64)

\* matrixData.length / 16
MatrixCount(matrixData) == R(Len(matrixData), 16)

\* The mesh loadFromMatrices(matrixData) builds; count * 16 slots are allocated
LoadedMesh(id, matrixData) ==
    LET matrixCount == MatrixCount(matrixData)
    IN  InstancedMesh(id, matrixCount,
                      SetArray(NewFloat32Array((matrixCount[1] * 16) \div matrixCount[2]),
                               matrixData))

\* getMatrices()
GetMatricesArray(matrices) ==
    WriteMatrices(matrices, NewFloat32Array(Len(matrices) * 16), 0, 16)

-----------------------------------------------------------------------------
(* FractalStar: manualMerge, the star.json document and loadFromData *)

\* Numbers are integers; the float32 values are the multiples of F32Grid
F32Grid == 4
Fround32(x) == x - (x % F32Grid)

Zeros(n) == [s \in 1..n |-> 0]

\* Mutant: the source is written from slot 0 on, whatever the offset
SetAtStart(array, source, offset) ==
    [s \in DOMAIN array |-> IF s <= Len(source) THEN Fround32(source[s]) ELSE array[s]]

\* typedArray.set(source, offset) on a Float32Array
SetAt(array, source, offset) ==
    [s \in DOMAIN array |->
        IF s - 1 >= offset /\ s - 1 < offset + Len(source)
        THEN Fround32(source[s - offset])
        ELSE array[s]]

NoAttr == [has |-> FALSE, array |-> <<>>]
Attr(array) == [has |-> TRUE, array |-> array]

\* attribute.count: array.length / itemSize
Count(array, itemSize) == Len(array) \div itemSize

\* Mutant: the index is shifted by the float offset of the vertex
RemapIndexByFloats(i, vOffset) == i + vOffset * 3

\* ind.array[i] + vOffset
RemapIndex(i, vOffset) == i + vOffset

\* The first forEach of manualMerge: totalVertices and totalIndices
RECURSIVE Totals(_)
Totals(gs) ==
    IF gs = <<>> THEN [vertices |-> 0, indices |-> 0]
    ELSE LET g == Head(gs)
             rest == Totals(Tail(gs))
         IN  [vertices |-> Count(g.position, 3) + rest.vertices,
              indices |-> (IF g.index.has THEN Len(g.index.array) ELSE 0) + rest.indices]

\* The second forEach of manualMerge, from geometry number k on
RECURSIVE MergeFrom(_, _, _, _, _)
MergeFrom(gs, k, acc, vOffset, iOffset) ==
    IF k > Len(gs) THEN acc
    ELSE
    LET g == gs[k]
        positions == SetAt(acc.positions, g.position, vOffset * 3)
        normals == IF g.normal.has THEN SetAt(acc.normals, g.normal.array, vOffset * 3)
                   ELSE acc.normals
        colors == IF g.color.has THEN SetAt(acc.colors, g.color.array, vOffset * 3)
                  ELSE acc.colors
        write == g.index.has /\ acc.hasIndices
        indices == IF write
                   THEN [s \in DOMAIN acc.indices |->
                            IF s - 1 >= iOffset /\ s - 1 < iOffset + Len(g.index.array)
                            THEN RemapIndex(g.index.array[s - iOffset], vOffset)
                            ELSE acc.indices[s]]
                   ELSE acc.indices
    IN  MergeFrom(gs, k + 1,
                  [positions |-> positions, normals |-> normals, colors |-> colors,
                   hasIndices |-> acc.hasIndices, indices |-> indices],
                  vOffset + Count(g.position, 3),
                  IF write THEN iOffset + Len(g.index.array) ELSE iOffset)

\* manualMerge(geometries)
ManualMergeOf(gs) ==
    LET tot == Totals(gs)
        acc == MergeFrom(gs, 1,
                         [positions |-> Zeros(tot.vertices * 3),
                          normals |-> Zeros(tot.vertices * 3),
                          colors |-> Zeros(tot.vertices * 3),
                          hasIndices |-> tot.indices > 0,
                          indices |-> Zeros(tot.indices)],
                         0, 0)
    IN  [position |-> acc.positions, normal |-> Attr(acc.normals),
         color |-> Attr(acc.colors),
         index |-> IF acc.hasIndices THEN Attr(acc.indices) ELSE NoAttr]

\* A JSON value of the document: null or an array of numbers
JsonNull == [null |-> TRUE, array |-> <<>>]
JsonArray(a) == [null |-> FALSE, array |-> a]

\* Mutant: the index buffer is written under the key the MergedMesh uses
StarDataJSONIndexKey(m) ==
    [position |-> JsonArray(m.position),
     normal |-> IF m.normal.has THEN JsonArray(m.normal.array) ELSE JsonArray(<<>>),
     color |-> IF m.color.has THEN JsonArray(m.color.array) ELSE JsonArray(<<>>),
     index |-> IF m.index.has THEN JsonArray(m.index.array) ELSE JsonNull]

\* starDataJSON of the bake script, as JSON.stringify writes and JSON.parse
\* reads it. The numbers are finite, and JSON writes a finite double with the
\* digits that read back as the same double.
StarDataJSON(m) ==
    [position |-> JsonArray(m.position),
     normal |-> IF m.normal.has THEN JsonArray(m.normal.array) ELSE JsonArray(<<>>),
     color |-> IF m.color.has THEN JsonArray(m.color.array) ELSE JsonArray(<<>>),
     indices |-> IF m.index.has THEN JsonArray(m.index.array) ELSE JsonNull]

\* data.key of a parsed document: undefined and null both read as no array
Property(data, key) == IF key \in DOMAIN data THEN data[key] ELSE JsonNull

\* new Float32Array(value): an empty array for undefined and null
Float32ArrayOf(v) ==
    IF v.null THEN <<>> ELSE [s \in 1..Len(v.array) |-> Fround32(v.array[s])]

\* The geometry loadFromData(data) builds
LoadFromDataOf(data) ==
    [position |-> Float32ArrayOf(Property(data, "position")),
     normal |-> Attr(Float32ArrayOf(Property(data, "normal"))),
     color |-> Attr(Float32ArrayOf(Property(data, "color"))),
     index |-> IF ~Property(data, "indices").null
               THEN Attr(Property(data, "indices").array)
               ELSE NoAttr]

-----------------------------------------------------------------------------
(* FractalStar: the hierarchy generate() builds and getGeometryData flattens *)

\* options.maxLevel || 3 and options.radius || 1.2
StarDefaults == [maxLevel |-> 3, radius |-> R(12, 10)]
StarParams(options_) ==
    [k \in {"maxLevel", "radius"} |->
        IF k \in DOMAIN options_ /\ ~Falsy(k, options_[k]) THEN options_[k]
        ELSE StarDefaults[k]]

\* this.position: options.positionY when it is not undefined, else (0, 12, 0)
StarPositionY(options_) ==
    IF "positionY" \in DOMAIN options_ THEN options_.positionY ELSE RInt(12)

\* The six axes, and the eight diagonals (+-d, +-d, +-d) with d = 0.577
DiagonalD == R(577, 1000)
Axes ==
    << Vec3(ROne, RZero, RZero), Vec3(R(-1, 1), RZero, RZero),
       Vec3(RZero, ROne, RZero), Vec3(RZero, R(-1, 1), RZero),
       Vec3(RZero, RZero, ROne), Vec3(RZero, RZero, R(-1, 1)) >>
Diagonals ==
    LET d == DiagonalD
        n == R(-577, 1000)
    IN  << Vec3(d, d, d), Vec3(n, d, d), Vec3(d, n, d), Vec3(n, n, d),
           Vec3(d, d, n), Vec3(n, d, n), Vec3(d, n, n), Vec3(n, n, n) >>

\* Mutant: the diagonals are never added
AxesOnly(level) == Axes

\* directions: the axes, and the diagonals pushed if (level === 0)
Directions(level) == IF level = 0 THEN Axes \o Diagonals ELSE Axes

\* Mutant: the child radius is halved
ShrinkHalf(radius) == RMul(radius, R(5, 10))

\* radius * 0.4, the radius of the recursive call
Shrink(radius) == RMul(radius, R(4, 10))

\* if (level >= this.maxLevel) return
SpikeBallDone(level, maxLevel) == level >= maxLevel

\* if (level < this.maxLevel - 1): a tip container and a recursive call
TipRecurses(level, maxLevel) == level < maxLevel - 1

\* this.materials[Math.min(level, this.materials.length - 1)]
MaterialIndex(level) == IF level < 1 THEN level ELSE 1

\* The objects of the hierarchy. `path' is the list of direction numbers from
\* the group down to the object, `radius' the radius argument of the call of
\* generateSpikeBall that made it.
CoreMesh(level, radius, path) ==
    [kind |-> "core", isMesh |-> TRUE, level |-> level, radius |-> radius,
     path |-> path, position |-> Vec3(RZero, RZero, RZero),
     material |-> MaterialIndex(level)]
SpikeMesh(level, radius, path, d) ==
    [kind |-> "spike", isMesh |-> TRUE, level |-> level, radius |-> radius,
     path |-> Append(path, d), position |-> Vec3(RZero, RZero, RZero),
     material |-> MaterialIndex(level)]
\* tipContainer.position is tipPos = dir * spikeLength, spikeLength = radius * 1.0
TipContainer(level, radius, path, d) ==
    [kind |-> "tip", isMesh |-> FALSE, level |-> level, radius |-> radius,
     path |-> Append(path, d),
     position |-> MultiplyScalar(Directions(level)[d], RMul(radius, ROne)),
     material |-> MaterialIndex(level)]

\* generateSpikeBall(parentObject, level, radius): the objects it adds below
\* parentObject, in the order Object3D.traverse visits them (an object, then
\* its children in the order they were added, each with its own subtree)
RECURSIVE GenerateSpikeBall(_, _, _, _)
GenerateSpikeBall(maxLevel, level, radius, path) ==
    IF SpikeBallDone(level, maxLevel) THEN <<>>
    ELSE
    LET directions == Directions(level)
        PerDirection(d) ==
            <<SpikeMesh(level, radius, path, d)>>
            \o (IF TipRecurses(level, maxLevel)
                THEN <<TipContainer(level, radius, path, d)>>
                     \o GenerateSpikeBall(maxLevel, level + 1, Shrink(radius),
                                          Append(path, d))
                ELSE <<>>)
    IN  <<CoreMesh(level, radius, path)>>
        \o Flatten([d \in 1..Len(directions) |-> PerDirection(d)])

\* A group transform: its position.y, the number of update() calls that turned
\* its rotation, and its uniform scale. A matrix is the list of its factors
\* that are not the identity.
GroupMatrix(y, updates, scale) ==
    IF y = RZero /\ updates = 0 /\ scale = ROne THEN <<>>
    ELSE <<[y |-> y, updates |-> updates, scale |-> scale, inverse |-> FALSE]>>

\* new THREE.Matrix4().copy(m).invert(); every scale update() sets is in
\* [0.9, 1.1], so m is invertible
Invert(m) == [k \in 1..Len(m) |-> [m[Len(m) + 1 - k] EXCEPT !.inverse = ~@]]

\* a.multiply(b): a factor next to its own inverse drops out
RECURSIVE Multiply(_, _)
Multiply(a, b) ==
    IF a # <<>> /\ b # <<>> /\ a[Len(a)] = [b[1] EXCEPT !.inverse = ~@]
    THEN Multiply(SubSeq(a, 1, Len(a) - 1), Tail(b))
    ELSE a \o b

NoGroup == [y |-> RZero, updates |-> 0, scale |-> ROne, matrixWorld |-> <<>>]
NoStar == [built |-> "none", maxLevel |-> 0, radius |-> RZero, group |-> NoGroup,
           nodes |-> <<>>]

\* IcosahedronGeometry(r, 0): 20 faces of 3 vertices each, not indexed
CoreVertexCount == 20 * 3

\* ConeGeometry(r, h, 8): radialSegments
RadialSegments == 8

\* The cone's vertices: two rows of radialSegments + 1 on the side, then the
\* radialSegments centre vertices and the radialSegments + 1 rim vertices of
\* the bottom cap
SpikeVertexCount == 2 * (RadialSegments + 1) + RadialSegments + (RadialSegments + 1)

\* The cone's index: per segment one side face (the face at the apex has no
\* area and is left out) and one cap face
ConeIndex ==
    LET row == RadialSegments + 1
        centre == 2 * row
        rim == centre + RadialSegments
    IN  Flatten([x \in 1..RadialSegments |-> <<row + x - 1, row + x, x>>])
        \o Flatten([x \in 1..RadialSegments |-> <<rim + x, rim + x - 1, centre + x - 1>>])

VertexCount(node) == IF node.kind = "core" THEN CoreVertexCount ELSE SpikeVertexCount

\* A number that names a group transform
FrameCode(frame) ==
    IF frame = <<>> THEN 0
    ELSE 1 + frame[1].updates + (MaxUpdates + 2) * (frame[1].y[1] + 20 * frame[1].scale[1])

\* The float32 in slot `slot' of the position (kind 0) or normal (kind 1) array
\* of the m-th mesh after geometry.applyMatrix4(matrix): one number for each
\* (matrix, mesh, slot). The matrix is the mesh's chain of local transforms
\* below the group, which m names, times the frame left of it.
TransformedFloat(kind, m, slot, frame) ==
    F32Grid * (1 + kind + 2 * (slot + 3 * CoreVertexCount * (m + (MaxMeshes + 2) * FrameCode(frame))))

\* color.r, color.g, color.b of the material, stored in a Float32Array
ColorFloat(material, c) == F32Grid * (1 + c + 3 * material)

\* child.matrixWorld after child.updateMatrixWorld(): the group's stored
\* matrixWorld times the chain of local matrices down to the child
ChildMatrixWorld(groupMatrixWorld) == groupMatrixWorld

\* Mutant: the geometry is moved by the child's world matrix
WorldMatrix(groupMatrixWorld, childMatrixWorld) == childMatrixWorld

\* new THREE.Matrix4().copy(this.group.matrixWorld).invert().multiply(child.matrixWorld)
RelativeMatrix(groupMatrixWorld, childMatrixWorld) ==
    Multiply(Invert(groupMatrixWorld), childMatrixWorld)

\* The geometry getGeometryData pushes for the m-th mesh it visits
MeshGeometry(node, m, matrix) ==
    LET n == 3 * VertexCount(node)
    IN  [position |-> [s \in 1..n |-> TransformedFloat(0, m, s - 1, matrix)],
         normal |-> Attr([s \in 1..n |-> TransformedFloat(1, m, s - 1, matrix)]),
         color |-> Attr([s \in 1..n |-> ColorFloat(node.material, (s - 1) % 3)]),
         index |-> IF node.kind = "spike" THEN Attr(ConeIndex) ELSE NoAttr]

\* The meshes this.group.traverse visits, in order
Meshes(nodes) == SelectSeq(nodes, LAMBDA node : node.isMesh)

\* The geometries array getGeometryData hands to manualMerge
TraversedGeometries(star_) ==
    LET meshes == Meshes(star_.nodes)
        gmw == star_.group.matrixWorld
    IN  [m \in 1..Len(meshes) |->
            MeshGeometry(meshes[m], m, RelativeMatrix(gmw, ChildMatrixWorld(gmw)))]

NoMerged == [present |-> FALSE, mesh |-> ManualMergeOf(<<>>)]
NoJSON == [present |-> FALSE, doc |-> <<>>]

StarIdle ==
    /\ geometries = <<>>
    /\ merged = NoMerged
    /\ starJSON = NoJSON
    /\ loadedStar = NoMerged
    /\ options = <<>>
    /\ fractalStar = NoStar

-----------------------------------------------------------------------------
(* FractalControls: the movement flags *)

\* The flag each case label of the two switch statements leads to
KeyBindings ==
    [ArrowUp |-> "moveForward", KeyW |-> "moveForward",
     ArrowLeft |-> "moveLeft", KeyA |-> "moveLeft",
     ArrowDown |-> "moveBackward", KeyS |-> "moveBackward",
     ArrowRight |-> "moveRight", KeyD |-> "moveRight",
     Space |-> "moveUp",
     ShiftLeft |-> "moveDown", ShiftRight |-> "moveDown"]

Flags == {"moveForward", "moveBackward", "moveLeft", "moveRight", "moveUp", "moveDown"}

\* event.code of the keys of the model: the bound ones and one that is not
Codes == DOMAIN KeyBindings \cup {"KeyQ"}

\* The constructor: every flag false
NewFractalControls == [f \in Flags |-> FALSE]

\* switch (event.code) { case ...: this.flag = value; break; }, no default
SetFlag(c, code, value) ==
    IF code \in DOMAIN KeyBindings THEN [c EXCEPT ![KeyBindings[code]] = value] ELSE c

onKeyDown(c, code) == SetFlag(c, code, TRUE)
onKeyUp(c, code) == SetFlag(c, code, FALSE)

ControlsIdle ==
    /\ keys = {}
    /\ controls = NewFractalControls

-----------------------------------------------------------------------------
(* main.js: loadGeometry and init *)

\* CONFIG.tree and CONFIG.star of config.js (colours left out)
ConfigTree ==
    [maxLevel |-> 4, height |-> RInt(30), radius |-> R(25, 10), ringCount |-> 12,
     branchesPerRing |-> 9, scaleFactor |-> R(5, 10), ringOffset |-> RInt(36),
     taperStart |-> R(1, 10)]
ConfigStar == [positionY |-> RInt(12), radius |-> R(8, 10)]

\* The instances generate() makes for parameters with positive ring and branch
\* counts: 1 + n + ... + n^(maxLevel-1), as C3_GeometricSeries states
GeneratedCount(p) == RInt(GeometricSum(p.ringCount * p.branchesPerRing, p.maxLevel))

NoObject == [set |-> FALSE]

\* new FractalTree(scene, CONFIG.tree)
ConfigTreeObject(id) ==
    [set |-> TRUE, built |-> "generate", params |-> TreeParams(ConfigTree), mesh |-> id,
     count |-> GeneratedCount(TreeParams(ConfigTree))]

\* new FractalTree(scene, { ...CONFIG.tree, preloadedMatrices: treeMatrices })
PreloadedTreeObject(id, matrixData) ==
    [set |-> TRUE, built |-> "load", params |-> TreeParams(ConfigTree), mesh |-> id,
     count |-> LoadedMesh(id, matrixData).count]

\* new FractalStar(scene, CONFIG.star)
ConfigStarObject(id) ==
    [set |-> TRUE, built |-> "generate", params |-> StarParams(ConfigStar), group |-> id,
     preloaded |-> NoMerged]

\* new FractalStar(scene, { ...CONFIG.star, preloadedData: starData })
PreloadedStarObject(id, data) ==
    [set |-> TRUE, built |-> "load", params |-> StarParams(ConfigStar), group |-> id,
     preloaded |-> [present |-> TRUE, mesh |-> LoadFromDataOf(data)]]

TreeMeshChild(id) == [id |-> id, kind |-> "treeMesh"]
StarGroupChild(id) == [id |-> id, kind |-> "starGroup"]

\* new Float32Array(treeBuffer) throws a RangeError unless byteLength is a
\* multiple of 4
Float32ViewThrows(bytes) == bytes % 4 # 0

\* The floats of a file of the given byte length
FileFloats(bytes) == [s \in 1..(bytes \div 4) |-> [m |-> ZeroMatrix, k |-> s, f32 |-> TRUE]]

\* A constructor call of init(): the class and whether the options carried
\* preloaded data
Construction(class, preloaded) == [class |-> class, preloaded |-> preloaded]

\* Mutant: the body of star.json is taken as read whatever json() did
JsonNeverRejects(file) == FALSE

\* await starResponse.json() rejects: the body could not be read or parsed
JsonRejects(file) == file.body = "fail"

\* Mutant: response.ok is not looked at
FetchThrowsOnRejectOnly(file) == file.net = "reject"

\* if (!response.ok) throw, after a fetch that may itself reject
FetchThrows(file) == file.net = "reject" \/ ~file.ok

InitIdle ==
    /\ treeFile = [net |-> "reject", ok |-> FALSE, body |-> "fail", bytes |-> 0]
    /\ starFile = [net |-> "reject", ok |-> FALSE, body |-> "fail", null |-> TRUE,
                   doc |-> <<>>]
    /\ pc = "idle"
    /\ requested = {}
    /\ treeMatrices = <<>>
    /\ tree = NoObject
    /\ star = NoObject
    /\ fallbacks = 0
    /\ initResult = "none"
    /\ constructed = <<>>
    /\ ControlsIdle

-----------------------------------------------------------------------------
(* Inputs of the tree generator *)

Opt(S) == {<<FALSE, 0>>} \cup {<<TRUE, v>> : v \in S}
Prop(k, o) == IF o[1] THEN k :> o[2] ELSE <<>>

ShapeInputs ==
    { <<>>,
      [height |-> RInt(30), radius |-> R(25, 10), scaleFactor |-> R(5, 10),
       ringOffset |-> RInt(36), taperStart |-> R(1, 10)] }

\* An upper estimate of the instances a params object generates
SizeOf(params) ==
    LET p == TreeParams(params)
        n == LoopCount(p, "ringCount") * LoopCount(p, "branchesPerRing")
    IN  IF IsUndefined(p, "maxLevel") THEN 1 ELSE GeometricSum(n, p.maxLevel + 1)

\* params.k missing, a number, or undefined
OptU(S) == Opt(S) \cup {<<FALSE, 1>>}
PropU(k, o) == IF o[1] THEN k :> o[2] ELSE <<>>
Undefs(ml, rc, b) ==
    LET u == (IF ml = <<FALSE, 1>> THEN {"maxLevel"} ELSE {})
             \cup (IF rc = <<FALSE, 1>> THEN {"ringCount"} ELSE {})
             \cup (IF b = <<FALSE, 1>> THEN {"branchesPerRing"} ELSE {})
    IN  IF u = {} THEN <<>> ELSE [undefined |-> u]

TreeInputs ==
    { params \in
        { PropU("maxLevel", ml) @@ PropU("ringCount", rc) @@ PropU("branchesPerRing", b)
          @@ Undefs(ml, rc, b) @@ sh :
            ml \in OptU(-1..MaxLevelIn), rc \in OptU(-1..MaxRing),
            b \in OptU(-1..MaxBranch), sh \in ShapeInputs } :
        SizeOf(params) <= MaxInstances }

-----------------------------------------------------------------------------
(* Actions of the tree generator *)

TreeIdle ==
    /\ trees = [s \in Slots |-> NoTree]
    /\ calls = [s \in Slots |-> <<>>]
    /\ scene = <<>>
    /\ disposed = {}
    /\ nextId = 1
    /\ blob = [present |-> FALSE, data |-> <<>>, matrices |-> <<>>, source |-> NoMesh]

Init ==
    /\ input \in TreeInputs
    /\ TreeIdle
    /\ StarIdle
    /\ InitIdle

\* The scene children once generate() has removed the old mesh
Cleared(t) == IF t.mesh.id # 0 THEN SceneRemove(scene, t.mesh.id) ELSE scene

\* The old mesh's geometry and material are disposed of
Disposed(t) == IF t.mesh.id # 0 THEN disposed \cup {t.mesh.id} ELSE disposed

\* generate() left by the RangeError of the recursion: the old mesh is gone,
\* this.matrices holds what was pushed, no mesh is built
Threw(s, t, g) ==
    /\ disposed' = Disposed(t)
    /\ trees' = [trees EXCEPT ![s] =
                    [t EXCEPT !.built = "threw", !.matrices = g.matrices, !.gens = t.gens + 1]]
    /\ calls' = [calls EXCEPT ![s] = g.paths]
    /\ scene' = Cleared(t)
    /\ nextId' = nextId

\* generate() run to its end: the new mesh is built from this.matrices and
\* added to the scene
Built(s, t, g) ==
    /\ disposed' = Disposed(t)
    /\ trees' = [trees EXCEPT ![s] =
                    [t EXCEPT !.built = "generate", !.matrices = g.matrices,
                              !.mesh = GeneratedMesh(nextId, g.matrices), !.gens = t.gens + 1]]
    /\ calls' = [calls EXCEPT ![s] = g.paths]
    /\ scene' = SceneAdd(Cleared(t), GeneratedMesh(nextId, g.matrices))
    /\ nextId' = nextId + 1

\* generate() on a tree object t whose paths are c. When the recursion runs
\* out of call stack the RangeError leaves generate() after the old mesh was
\* removed and before a new one is built.
GenerateOn(s, t, c) ==
    IF Overflows(t.params, 0)
    THEN Threw(s, t, PushedBeforeOverflow(t.params, t.matrices, c))
    ELSE Built(s, t, Generated(t.params, t.matrices, c))

\* new FractalTree(scene, input)
NewFractalTree(s) ==
    /\ trees[s].built = "none"
    /\ GenerateOn(s, [NoTree EXCEPT !.params = TreeParams(input)], <<>>)
    /\ UNCHANGED <<input, blob, starVars, initVars>>

\* new FractalTree(scene, { ...input, preloadedMatrices: blob })
NewFractalTreePreloaded(s) ==
    /\ trees[s].built = "none"
    /\ blob.present
    /\ LET mesh == LoadedMesh(nextId, blob.data)
       IN  /\ trees' = [trees EXCEPT ![s] =
                            [NoTree EXCEPT !.built = "load", !.params = TreeParams(input),
                                           !.mesh = mesh, !.source = blob.source]]
           /\ scene' = SceneAdd(scene, mesh)
    /\ nextId' = nextId + 1
    /\ UNCHANGED <<input, calls, disposed, blob, starVars, initVars>>

\* tree.generate() on an existing tree
Generate(s) ==
    /\ trees[s].built \in {"generate", "load"}
    /\ trees[s].gens < MaxGenerate
    /\ GenerateOn(s, trees[s], calls[s])
    /\ UNCHANGED <<input, blob, starVars, initVars>>

\* tree.getMatrices()
GetMatrices(s) ==
    /\ trees[s].built = "generate"
    /\ ~blob.present
    /\ blob' = [present |-> TRUE, data |-> GetMatricesArray(trees[s].matrices),
                matrices |-> trees[s].matrices, source |-> trees[s].mesh]
    /\ UNCHANGED <<input, trees, calls, scene, disposed, nextId, starVars, initVars>>

Next ==
    \E s \in Slots :
        \/ NewFractalTree(s)
        \/ NewFractalTreePreloaded(s)
        \/ Generate(s)
        \/ GetMatrices(s)

Spec == Init /\ [][Next]_vars

-----------------------------------------------------------------------------
(* Trees built from a tree.bin that some other run wrote, then regenerated *)

\* A Float32Array of whole matrices read from a file; the parameters of the
\* tree that wrote it are not those of the tree that loads it
TreeBins ==
    { [present |-> TRUE, data |-> FileFloats(64 * n), matrices |-> <<>>, source |-> NoMesh] :
        n \in 0..MaxBinMatrices }

InitRegen ==
    /\ input \in TreeInputs
    /\ trees = [s \in Slots |-> NoTree]
    /\ calls = [s \in Slots |-> <<>>]
    /\ scene = <<>>
    /\ disposed = {}
    /\ nextId = 1
    /\ blob \in TreeBins
    /\ StarIdle
    /\ InitIdle

NextRegen ==
    \E s \in Slots :
        \/ NewFractalTree(s)
        \/ NewFractalTreePreloaded(s)
        \/ Generate(s)

SpecRegen == InitRegen /\ [][NextRegen]_vars

-----------------------------------------------------------------------------
(* Trees that differ in taperStart, with the widths and factors varied *)

ShapeTreeInputs ==
    { params \in
        { Prop("maxLevel", ml) @@ Prop("ringCount", rc) @@ Prop("branchesPerRing", b)
          @@ Prop("radius", ra) @@ Prop("scaleFactor", sf) @@ Prop("spineWidthRatio", sw) :
            ml \in Opt(1..MaxLevelIn), rc \in Opt(1..MaxRing + 1), b \in Opt(1..MaxBranch),
            ra \in Opt({RZero, R(25, 10)}), sf \in Opt({R(5, 10), R(-5, 10)}),
            sw \in Opt({RZero, R(-1, 1), R(5, 10)}) } :
        SizeOf(params) <= MaxInstances }

TaperStarts == {R(5, 10), ROne}

InitShape ==
    /\ input \in ShapeTreeInputs
    /\ TreeIdle
    /\ StarIdle
    /\ InitIdle

\* new FractalTree(scene, { ...input, taperStart }), taperStart left out or set
NewFractalTreeWith(s, ts) ==
    /\ trees[s].built = "none"
    /\ GenerateOn(s, [NoTree EXCEPT !.params = TreeParams(Prop("taperStart", ts) @@ input)],
                  <<>>)
    /\ UNCHANGED <<input, blob, starVars, initVars>>

NextShape == \E s \in Slots, ts \in Opt(TaperStarts) : NewFractalTreeWith(s, ts)

SpecShape == InitShape /\ [][NextShape]_vars

-----------------------------------------------------------------------------
(* Actions of the star merge, bake and load *)

\* A Float32Array of n floats starting at base
FloatsFrom(base, n) == [s \in 1..n |-> (base + s) * F32Grid]

\* The input geometries: 0..MaxVerts vertices, with or without normal and color
\* attributes, not indexed or indexed in either order
GeometryInputs ==
    { [position |-> FloatsFrom(10 * n, 3 * n),
       normal |-> IF a = "noNormal" THEN NoAttr ELSE Attr(FloatsFrom(100 + 10 * n, 3 * n)),
       color |-> IF a = "noColor" THEN NoAttr ELSE Attr(FloatsFrom(200 + 10 * n, 3 * n)),
       index |-> IF ix = "none" THEN NoAttr
                 ELSE IF ix = "forward" THEN Attr([s \in 1..n |-> s - 1])
                 ELSE Attr([s \in 1..n |-> n - s])] :
        n \in 0..MaxVerts, a \in {"full", "noNormal", "noColor"},
        ix \in {"none", "forward", "reverse"} }

RECURSIVE SeqsUpTo(_, _)
SeqsUpTo(S, n) ==
    IF n = 0 THEN {<<>>}
    ELSE LET shorter == SeqsUpTo(S, n - 1)
         IN  shorter \cup {Append(q, x) : q \in {r \in shorter : Len(r) = n - 1}, x \in S}

InitStar ==
    /\ input = <<>>
    /\ TreeIdle
    /\ InitIdle
    /\ geometries \in SeqsUpTo(GeometryInputs, MaxGeoms)
    /\ merged = NoMerged
    /\ starJSON = NoJSON
    /\ loadedStar = NoMerged
    /\ options = <<>>
    /\ fractalStar = NoStar

\* starData = manualMerge(geometries)
ManualMerge ==
    /\ ~merged.present
    /\ merged' = [present |-> TRUE, mesh |-> ManualMergeOf(geometries)]
    /\ UNCHANGED <<treeVars, initVars, geometries, starJSON, loadedStar, options, fractalStar>>

\* fs.writeFileSync(starPath, JSON.stringify(starDataJSON))
WriteStar ==
    /\ merged.present
    /\ ~starJSON.present
    /\ starJSON' = [present |-> TRUE, doc |-> StarDataJSON(merged.mesh)]
    /\ UNCHANGED <<treeVars, initVars, geometries, merged, loadedStar, options, fractalStar>>

\* new FractalStar(scene, { preloadedData: JSON.parse(star.json) })
LoadFromData ==
    /\ starJSON.present
    /\ ~loadedStar.present
    /\ loadedStar' = [present |-> TRUE, mesh |-> LoadFromDataOf(starJSON.doc)]
    /\ UNCHANGED <<treeVars, initVars, geometries, merged, starJSON, options, fractalStar>>

NextStar == ManualMerge \/ WriteStar \/ LoadFromData

SpecStar == InitStar /\ [][NextStar]_vars

-----------------------------------------------------------------------------
(* Actions of the generated star *)

\* The options objects: maxLevel and radius missing, 0 or a number, positionY
\* missing or a number
StarInputs ==
    { Prop("maxLevel", ml) @@ Prop("radius", ra) @@ Prop("positionY", py) :
        ml \in Opt(-1..MaxStarLevel), ra \in Opt({RZero, R(8, 10)}),
        py \in Opt({RZero, RInt(12)}) }

\* 1 + Math.sin(Date.now() * 0.003) * 0.1, at the times update() runs
PulseScales == {R(9, 10), ROne, R(11, 10)}

InitGen ==
    /\ input = <<>>
    /\ TreeIdle
    /\ InitIdle
    /\ geometries = <<>>
    /\ merged = NoMerged
    /\ starJSON = NoJSON
    /\ loadedStar = NoMerged
    /\ options \in StarInputs
    /\ fractalStar = NoStar

genFrame == <<input, trees, calls, disposed, blob, initVars, starJSON, loadedStar, options>>

\* new FractalStar(scene, options): the group is placed and added to the
\* scene, then generate() builds the hierarchy below it
NewFractalStar ==
    /\ fractalStar.built = "none"
    /\ LET p == StarParams(options)
       IN  fractalStar' =
               [built |-> "generate", maxLevel |-> p.maxLevel, radius |-> p.radius,
                group |-> [NoGroup EXCEPT !.y = StarPositionY(options)],
                nodes |-> GenerateSpikeBall(p.maxLevel, 0, p.radius, <<>>)]
    /\ scene' = SceneAdd(scene, [id |-> nextId, kind |-> "starGroup"])
    /\ nextId' = nextId + 1
    /\ UNCHANGED <<genFrame, geometries, merged>>

\* star.update(): the rotation steps on and the scale is set to the pulse
Update ==
    /\ fractalStar.built # "none"
    /\ fractalStar.group.updates < MaxUpdates
    /\ \E s \in PulseScales :
          fractalStar' = [fractalStar EXCEPT !.group.updates = @ + 1, !.group.scale = s]
    /\ UNCHANGED <<genFrame, scene, nextId, geometries, merged>>

\* scene.updateMatrixWorld(true), as the bake script and the renderer call it:
\* the group's matrixWorld is composed from its position, rotation and scale
UpdateMatrixWorld ==
    /\ fractalStar.built # "none"
    /\ LET g == fractalStar.group
       IN  /\ g.matrixWorld # GroupMatrix(g.y, g.updates, g.scale)
           /\ fractalStar' = [fractalStar EXCEPT
                                 !.group.matrixWorld = GroupMatrix(g.y, g.updates, g.scale)]
    /\ UNCHANGED <<genFrame, scene, nextId, geometries, merged>>

\* starData = star.getGeometryData()
GetGeometryData ==
    /\ fractalStar.built # "none"
    /\ ~merged.present
    /\ Len(Meshes(fractalStar.nodes)) <= MaxMeshes
    /\ LET gs == TraversedGeometries(fractalStar)
       IN  /\ geometries' = gs
           /\ merged' = [present |-> TRUE, mesh |-> ManualMergeOf(gs)]
    /\ UNCHANGED <<genFrame, scene, nextId, fractalStar>>

NextGen == NewFractalStar \/ Update \/ UpdateMatrixWorld \/ GetGeometryData

SpecGen == InitGen /\ [][NextGen]_vars

-----------------------------------------------------------------------------
(* Actions of the keyboard *)

InitControls ==
    /\ input = <<>>
    /\ TreeIdle
    /\ StarIdle
    /\ InitIdle

\* A keydown event reaches the document: the key goes down, or it is held and
\* repeats
KeyDown(code) ==
    /\ keys' = keys \cup {code}
    /\ controls' = onKeyDown(controls, code)
    /\ UNCHANGED <<treeVars, starVars, loadVars>>

\* A keyup event reaches the document: a held key is released
KeyUp(code) ==
    /\ code \in keys
    /\ keys' = keys \ {code}
    /\ controls' = onKeyUp(controls, code)
    /\ UNCHANGED <<treeVars, starVars, loadVars>>

NextControls == \E code \in Codes : KeyDown(code) \/ KeyUp(code)

SpecControls == InitControls /\ [][NextControls]_vars

-----------------------------------------------------------------------------
(* Actions of init() *)

TreeFileInputs ==
    { [net |-> "reject", ok |-> FALSE, body |-> "fail", bytes |-> 0],
      [net |-> "ok", ok |-> FALSE, body |-> "ok", bytes |-> 64],
      [net |-> "ok", ok |-> TRUE, body |-> "fail", bytes |-> 0] }
    \cup { [net |-> "ok", ok |-> TRUE, body |-> "ok", bytes |-> b] : b \in 0..MaxTreeBytes }

\* The JSON documents star.json may hold: null, or an object with any of the
\* four keys, `indices' an array or null
StarDocInputs ==
    { Prop("position", po) @@ Prop("normal", no) @@ Prop("color", co) @@ Prop("indices", ix) :
        po \in Opt({JsonArray(FloatsFrom(0, 3))}),
        no \in Opt({JsonArray(FloatsFrom(100, 3))}),
        co \in Opt({JsonArray(FloatsFrom(200, 3))}),
        ix \in Opt({JsonArray(<<0>>), JsonNull}) }

StarFileInputs ==
    { [net |-> "reject", ok |-> FALSE, body |-> "fail", null |-> TRUE, doc |-> <<>>],
      [net |-> "ok", ok |-> FALSE, body |-> "fail", null |-> TRUE, doc |-> <<>>],
      [net |-> "ok", ok |-> TRUE, body |-> "fail", null |-> TRUE, doc |-> <<>>],
      [net |-> "ok", ok |-> TRUE, body |-> "ok", null |-> TRUE, doc |-> <<>>] }
    \cup { [net |-> "ok", ok |-> TRUE, body |-> "ok", null |-> FALSE, doc |-> d] :
             d \in StarDocInputs }

InitInit ==
    /\ input = <<>>
    /\ TreeIdle
    /\ StarIdle
    /\ treeFile \in TreeFileInputs
    /\ starFile \in StarFileInputs
    /\ pc = "start"
    /\ requested = {}
    /\ treeMatrices = <<>>
    /\ tree = NoObject
    /\ star = NoObject
    /\ fallbacks = 0
    /\ initResult = "pending"
    /\ constructed = <<>>
    /\ ControlsIdle

\* The catch block of init(), entered with the scene as the try block left it
CatchFallback(children, id, log) ==
    /\ constructed' = log \o <<Construction("FractalTree", FALSE),
                                Construction("FractalStar", FALSE)>>
    /\ tree' = ConfigTreeObject(id)
    /\ star' = ConfigStarObject(id + 1)
    /\ scene' = SceneAdd(SceneAdd(children, TreeMeshChild(id)), StarGroupChild(id + 1))
    /\ nextId' = id + 2
    /\ fallbacks' = fallbacks + 1
    /\ pc' = "done"
    /\ initResult' = "resolved"

initFrame == <<input, trees, calls, disposed, blob, starVars, treeFile, starFile, controlVars>>

\* init() runs up to the first await: fetch('./tree.bin')
StartInit ==
    /\ pc = "start"
    /\ requested' = requested \cup {"./tree.bin"}
    /\ pc' = "awaitTreeFetch"
    /\ UNCHANGED <<initFrame, scene, nextId, treeMatrices, tree, star, fallbacks, initResult,
                   constructed>>

\* The fetch of tree.bin settles
TreeFetchSettles ==
    /\ pc = "awaitTreeFetch"
    /\ IF FetchThrows(treeFile)
       THEN CatchFallback(scene, nextId, constructed)
       ELSE /\ pc' = "awaitTreeBody"
            /\ UNCHANGED <<scene, nextId, tree, star, fallbacks, initResult, constructed>>
    /\ UNCHANGED <<initFrame, requested, treeMatrices>>

\* treeResponse.arrayBuffer() settles; then fetch('./star.json')
TreeBodySettles ==
    /\ pc = "awaitTreeBody"
    /\ IF treeFile.body = "fail" \/ Float32ViewThrows(treeFile.bytes)
       THEN /\ CatchFallback(scene, nextId, constructed)
            /\ UNCHANGED <<requested, treeMatrices>>
       ELSE /\ treeMatrices' = FileFloats(treeFile.bytes)
            /\ requested' = requested \cup {"./star.json"}
            /\ pc' = "awaitStarFetch"
            /\ UNCHANGED <<scene, nextId, tree, star, fallbacks, initResult, constructed>>
    /\ UNCHANGED initFrame

\* The fetch of star.json settles
StarFetchSettles ==
    /\ pc = "awaitStarFetch"
    /\ IF FetchThrows(starFile)
       THEN CatchFallback(scene, nextId, constructed)
       ELSE /\ pc' = "awaitStarJson"
            /\ UNCHANGED <<scene, nextId, tree, star, fallbacks, initResult, constructed>>
    /\ UNCHANGED <<initFrame, requested, treeMatrices>>

\* starResponse.json() settles; loadGeometry returns and init() builds the
\* tree, then the star, from the preloaded data. The FractalStar constructor
\* has added its group to the scene when loadFromData reads data.position,
\* which throws a TypeError for a null document.
StarJsonSettles ==
    /\ pc = "awaitStarJson"
    /\ IF JsonRejects(starFile)
       THEN CatchFallback(scene, nextId, constructed)
       ELSE LET withTree == SceneAdd(scene, TreeMeshChild(nextId))
                withGroup == SceneAdd(withTree, StarGroupChild(nextId + 1))
                preloaded == constructed \o <<Construction("FractalTree", TRUE),
                                              Construction("FractalStar", TRUE)>>
            IN  IF starFile.null
                THEN CatchFallback(withGroup, nextId + 2, preloaded)
                ELSE /\ constructed' = preloaded
                     /\ tree' = PreloadedTreeObject(nextId, treeMatrices)
                     /\ star' = PreloadedStarObject(nextId + 1, starFile.doc)
                     /\ scene' = withGroup
                     /\ nextId' = nextId + 2
                     /\ pc' = "done"
                     /\ initResult' = "resolved"
                     /\ UNCHANGED fallbacks
    /\ UNCHANGED <<initFrame, requested, treeMatrices>>

NextInit ==
    \/ StartInit
    \/ TreeFetchSettles
    \/ TreeBodySettles
    \/ StarFetchSettles
    \/ StarJsonSettles

SpecInit == InitInit /\ [][NextInit]_vars

-----------------------------------------------------------------------------
(* Properties of the tree generator *)

GeneratedTrees == {s \in Slots : trees[s].built = "generate"}

\* ringCount * branchesPerRing of a params record with positive factors
Branching(p) == p.ringCount * p.branchesPerRing

RootScale(p) == Vec3(RMul(p.radius, p.spineWidthRatio), p.height,
                     RMul(p.radius, p.spineWidthRatio))

\* None of maxLevel, ringCount and branchesPerRing is undefined
AllDefined(p) == p.undefined = {}

\* C1: with maxLevel <= 0 generate() yields exactly one instance, the root.
C1_RootOnlyAtZeroDepth ==
    \A s \in GeneratedTrees :
        (AllDefined(trees[s].params) /\ trees[s].params.maxLevel <= 0) =>
            /\ Len(trees[s].matrices) = 1
            /\ trees[s].mesh.count = RInt(1)

IsC2Scenario(p) ==
    /\ AllDefined(p)
    /\ p.maxLevel = 1 /\ p.ringCount = 1 /\ p.branchesPerRing = 4
    /\ p.scaleFactor = R(5, 10)

\* C2: maxLevel=1, ringCount=1, branchesPerRing=4, scaleFactor=0.5 yields 5
\* entries: the root at the origin with identity rotation and scale (radius,
\* height, radius), then the four children of the ring t=0 at 0, 90, 180 and
\* 270 degrees, each with 0.5 times the parent scale.
C2_FiveEntries ==
    \A s \in GeneratedTrees :
        LET p == trees[s].params
            m == trees[s].matrices
        IN  IsC2Scenario(p) =>
                /\ Len(m) = 5
                /\ m[1] = Compose(Origin, Identity, RootScale(p))
                /\ \A j \in 0..3 :
                      /\ m[j + 2].rot = <<[angle |-> RInt(90 * j), t |-> RZero]>>
                      /\ m[j + 2].pos[1].local.angle = RInt(90 * j)
                      /\ m[j + 2].scale = MultiplyScalar(m[1].scale, R(5, 10))

\* C3 as stated: for maxLevel = L >= 1 and n = ringCount * branchesPerRing >= 1
\* the length is a geometric series in n and at most n^L.
C3_GeometricAtMostPower ==
    \A s \in GeneratedTrees :
        LET p == trees[s].params
            n == Branching(p)
        IN  (AllDefined(p) /\ p.maxLevel >= 1 /\ p.ringCount >= 1
             /\ p.branchesPerRing >= 1) =>
                /\ Len(trees[s].matrices) = GeometricSum(n, p.maxLevel)
                /\ Len(trees[s].matrices) <= IntPow(n, p.maxLevel)

\* C3 amended: for maxLevel = L >= 1 and n >= 1 the length is
\* 1 + n + ... + n^(L-1) (one term per level 0..L-1); it is at most n^L when
\* n >= 2, and it is L when n = 1.
C3_GeometricSeries ==
    \A s \in GeneratedTrees :
        LET p == trees[s].params
            n == Branching(p)
            len == Len(trees[s].matrices)
        IN  (AllDefined(p) /\ p.maxLevel >= 1 /\ p.ringCount >= 1
             /\ p.branchesPerRing >= 1) =>
                /\ len = GeometricSum(n, p.maxLevel)
                /\ n >= 2 => len <= IntPow(n, p.maxLevel)
                /\ n = 1 => len = p.maxLevel

C3_Witness ==
    \E s \in GeneratedTrees :
        /\ trees[s].params.maxLevel = 2
        /\ Branching(trees[s].params) = 4
        /\ trees[s].params.ringCount = 2
        /\ Len(trees[s].matrices) = 5

IsPrefix(a, b) == Len(a) <= Len(b) /\ SubSeq(b, 1, Len(a)) = a

\* (ring, branch) pairs in loop order: ring-major, then branch
PairLess(a, b) == a[1] < b[1] \/ (a[1] = b[1] /\ a[2] < b[2])

\* Pre-order on call paths: an ancestor first, then siblings in loop order
RECURSIVE PathLess(_, _)
PathLess(a, b) ==
    IF a = <<>> THEN b # <<>>
    ELSE IF b = <<>> THEN FALSE
    ELSE IF Head(a) = Head(b) THEN PathLess(Tail(a), Tail(b))
    ELSE PairLess(Head(a), Head(b))

\* C4: the instance order is pre-order: entry 0 is the root, every segment
\* precedes all its descendants, the descendants of a segment are contiguous,
\* and sibling subtrees follow each other ring-major, then by branch.
C4_PreOrder ==
    \A s \in GeneratedTrees :
        LET c == calls[s]
        IN  /\ Len(c) = Len(trees[s].matrices)
            /\ Len(c) > 0 => c[1] = <<>>
            /\ \A a, b \in 1..Len(c) : a < b => PathLess(c[a], c[b])
            /\ \A a, b \in 1..Len(c) :
                  (a < b /\ IsPrefix(c[a], c[b])) =>
                      \A k \in a..b : IsPrefix(c[a], c[k])

C4_Witness ==
    \E s \in GeneratedTrees :
        /\ Len(calls[s]) = 7
        /\ calls[s][2] = << <<0, 0>> >>
        /\ calls[s][3] = << <<0, 0>>, <<0, 0>> >>
        /\ calls[s][5] = << <<1, 0>> >>

\* C5: generate() is deterministic: trees with identical parameters whose
\* last build was a generate() run, on a fresh instance, on a regenerated one
\* or on one first built from preloaded matrices, hold the same matrices in the
\* same order and the same mesh contents.
C5_Deterministic ==
    \A a, b \in GeneratedTrees :
        trees[a].params = trees[b].params =>
            /\ trees[a].matrices = trees[b].matrices
            /\ trees[a].mesh.count = trees[b].mesh.count
            /\ trees[a].mesh.instanceMatrix = trees[b].mesh.instanceMatrix

C5_Witness ==
    /\ trees[1].built = "generate" /\ trees[1].gens = 2
    /\ trees[2].built = "generate" /\ trees[2].gens = 1
    /\ Len(trees[1].matrices) >= 5

Slice(array, i) == SubSeq(array, 16 * i + 1, 16 * i + 16)

\* C8: getMatrices() returns 16 numbers per instance, instance i in slots
\* [16i, 16i+16), and a tree built from that array as preloadedMatrices has a
\* mesh with the instance count and the instance values, in order, of the
\* generated tree's mesh.
C8_TreeRoundTrip ==
    /\ blob.present =>
          /\ Len(blob.data) = 16 * Len(blob.matrices)
          /\ \A i \in 0..(Len(blob.matrices) - 1) :
                Slice(blob.data, i)
                    = [k \in 1..16 |-> Fround(Element(blob.matrices[i + 1], k - 1))]
    /\ \A s \in Slots :
          trees[s].built = "load" =>
              /\ trees[s].mesh.count = trees[s].source.count
              /\ trees[s].mesh.instanceMatrix = trees[s].source.instanceMatrix

C8_Witness ==
    \E s \in Slots :
        /\ trees[s].built = "load"
        /\ trees[s].mesh.count = RInt(5)
        /\ Len(trees[s].mesh.instanceMatrix) = 80

-----------------------------------------------------------------------------
(* Properties of the star merge and its round trip *)

\* C9: writing a MergedMesh as {position, normal, color, indices} and loading
\* that document gives a geometry with the same position, normal and color
\* arrays, the same index buffer when the mesh has one, and none when it has
\* none.
C9_StarRoundTrip ==
    loadedStar.present =>
        /\ loadedStar.mesh.position = merged.mesh.position
        /\ loadedStar.mesh.normal.array = merged.mesh.normal.array
        /\ loadedStar.mesh.color.array = merged.mesh.color.array
        /\ loadedStar.mesh.index.has = merged.mesh.index.has
        /\ loadedStar.mesh.index.array = merged.mesh.index.array

C9_Witness ==
    /\ loadedStar.present
    /\ Len(geometries) = 2
    /\ geometries[1].index.has /\ ~geometries[2].index.has
    /\ Len(loadedStar.mesh.position) = 9
    /\ loadedStar.mesh.index.array = <<1, 0>>

TotalVertexCount(gs) == Totals(gs).vertices

\* C10: the merged position, normal and color arrays all have length
\* 3 x totalVertexCount and every merged index is below totalVertexCount.
C10_MergedShape ==
    merged.present =>
        LET m == merged.mesh
            total == TotalVertexCount(geometries)
        IN  /\ Len(m.position) = 3 * total
            /\ Len(m.normal.array) = 3 * total
            /\ Len(m.color.array) = 3 * total
            /\ m.index.has =>
                  \A s \in 1..Len(m.index.array) : m.index.array[s] < total

C10_Witness ==
    /\ merged.present
    /\ Len(geometries) = 2
    /\ geometries[1].index.has /\ geometries[2].index.has
    /\ merged.mesh.index.array = <<0, 1, 3, 2>>

\* offset_k: the vertices of the geometries before the k-th
VertexOffset(gs, k) == Totals(SubSeq(gs, 1, k - 1)).vertices

\* The geometries that contribute an index run, and the start of the k-th run
Indexed(gs) == SelectSeq(gs, LAMBDA g : g.index.has)
IndexOffset(gs, k) == Totals(SubSeq(gs, 1, k - 1)).indices

\* C16: manualMerge concatenates in input order: the vertices of the k-th
\* geometry fill the output vertex slots [offset_k, offset_k + n_k), offset_k
\* the vertex count of the geometries before it, and its indices appear as
\* (index + offset_k), the index runs in the order of the geometries.
C16_ConcatenatesInOrder ==
    merged.present =>
        LET m == merged.mesh
            gs == geometries
        IN  \A k \in 1..Len(gs) :
                LET g == gs[k]
                    vo == VertexOffset(gs, k)
                    io == IndexOffset(gs, k)
                IN  /\ \A i \in 1..Len(g.position) :
                          m.position[3 * vo + i] = Fround32(g.position[i])
                    /\ g.normal.has =>
                          \A i \in 1..Len(g.normal.array) :
                              m.normal.array[3 * vo + i] = Fround32(g.normal.array[i])
                    /\ g.color.has =>
                          \A i \in 1..Len(g.color.array) :
                              m.color.array[3 * vo + i] = Fround32(g.color.array[i])
                    /\ g.index.has =>
                          \A i \in 1..Len(g.index.array) :
                              m.index.array[io + i] = g.index.array[i] + vo

C16_Witness ==
    /\ merged.present
    /\ Len(geometries) = 2
    /\ Len(geometries[1].position) = 3 /\ Len(geometries[2].position) = 6
    /\ geometries[1].index.has /\ geometries[2].index.has
    /\ merged.mesh.index.array = <<0, 2, 1>>
    /\ merged.mesh.position[4] = geometries[2].position[1]

-----------------------------------------------------------------------------
(* Properties of the generated star *)

StarBuilt == fractalStar.built = "generate"

Cores(nodes) == SelectSeq(nodes, LAMBDA n : n.kind = "core")
Spikes(nodes) == SelectSeq(nodes, LAMBDA n : n.kind = "spike")
CoresAt(nodes, k) == SelectSeq(nodes, LAMBDA n : n.kind = "core" /\ n.level = k)

\* The spikes attached to the core at `path'
SpikesOf(nodes, path) ==
    SelectSeq(nodes, LAMBDA n : n.kind = "spike" /\ Len(n.path) = Len(path) + 1
                                /\ SubSeq(n.path, 1, Len(path)) = path)

MergedVertexCount == Count(merged.mesh.position, 3)

\* C11 as stated: a star of maxLevel 1 is a single core mesh without spikes,
\* and the merged vertex count is the core's vertex count.
C11_SingleCoreNoSpikes ==
    (StarBuilt /\ fractalStar.maxLevel = 1) =>
        /\ Len(Meshes(fractalStar.nodes)) = 1
        /\ Len(Spikes(fractalStar.nodes)) = 0
        /\ merged.present => MergedVertexCount = CoreVertexCount

\* C11 amended: a star of maxLevel 1 is a single core mesh with its 14 spikes
\* and no child core: the hierarchy holds 15 meshes, and the merged vertex
\* count is the core's vertex count plus 14 times the spike's.
C11_CoreWithSpikes ==
    (StarBuilt /\ fractalStar.maxLevel = 1) =>
        /\ Len(Cores(fractalStar.nodes)) = 1
        /\ Len(Spikes(fractalStar.nodes)) = 14
        /\ Len(Meshes(fractalStar.nodes)) = 15
        /\ Len(fractalStar.nodes) = 15
        /\ merged.present => MergedVertexCount = CoreVertexCount + 14 * SpikeVertexCount

C11_Witness ==
    /\ StarBuilt /\ fractalStar.maxLevel = 1
    /\ merged.present
    /\ MergedVertexCount = 550

RECURSIVE RPow(_, _)
RPow(x, k) == IF k <= 0 THEN ROne ELSE RMul(x, RPow(x, k - 1))

IsAxis(v) == Abs(v.x[1]) + Abs(v.y[1]) + Abs(v.z[1]) = 1 /\ v.x[2] * v.y[2] * v.z[2] = 1
IsDiagonal(v) == Abs(v.x[1]) = 577 /\ Abs(v.y[1]) = 577 /\ Abs(v.z[1]) = 577

\* C15: for maxLevel = L >= 1 there is one core at level 0 with 14 spikes (6
\* along the axes, 8 along the diagonals), every core at a level k >= 1 has 6
\* spikes, a spike tip carries a child core iff its level < L - 1, the cores at
\* level k (1 <= k < L) number 14 x 6^(k-1), no core is at a level >= L, and
\* the radius passed to level k is radius x 0.4^k.
C15_HierarchyShape ==
    (StarBuilt /\ fractalStar.maxLevel >= 1) =>
        LET L == fractalStar.maxLevel
            nodes == fractalStar.nodes
            cores == Cores(nodes)
            spikes == Spikes(nodes)
        IN  /\ Len(CoresAt(nodes, 0)) = 1
            /\ \A c \in 1..Len(cores) :
                  LET own == SpikesOf(nodes, cores[c].path)
                      dirs == [i \in 1..Len(own) |->
                                  Directions(own[i].level)[own[i].path[Len(own[i].path)]]]
                  IN  /\ \A i \in 1..Len(own) : own[i].level = cores[c].level
                      /\ cores[c].level = 0 =>
                            /\ Len(own) = 14
                            /\ Cardinality({i \in 1..14 : IsAxis(dirs[i])}) = 6
                            /\ Cardinality({i \in 1..14 : IsDiagonal(dirs[i])}) = 8
                            /\ Cardinality({dirs[i] : i \in 1..14}) = 14
                      /\ cores[c].level >= 1 =>
                            /\ Len(own) = 6
                            /\ {dirs[i] : i \in 1..6} = {Axes[i] : i \in 1..6}
            /\ \A i \in 1..Len(spikes) :
                  (\E c \in 1..Len(cores) : cores[c].path = spikes[i].path)
                      <=> spikes[i].level < L - 1
            /\ \A k \in 1..(L - 1) : Len(CoresAt(nodes, k)) = 14 * IntPow(6, k - 1)
            /\ \A c \in 1..Len(cores) : cores[c].level < L
            /\ \A i \in 1..Len(nodes) :
                  nodes[i].radius = RMul(fractalStar.radius, RPow(R(4, 10), nodes[i].level))

C15_Witness ==
    /\ StarBuilt /\ fractalStar.maxLevel = 3
    /\ Len(CoresAt(fractalStar.nodes, 1)) = 14
    /\ Len(CoresAt(fractalStar.nodes, 2)) = 84
    /\ Len(Spikes(fractalStar.nodes)) = 602

\* The geometries of the meshes in the star group's local frame
LocalGeometries(nodes) ==
    LET meshes == Meshes(nodes)
    IN  [m \in 1..Len(meshes) |-> MeshGeometry(meshes[m], m, <<>>)]

\* C17: getGeometryData gives the vertices in the star group's local frame:
\* whatever the group's position, rotation and scale are, after any number of
\* update() calls and whether or not its matrixWorld is up to date, the
\* MergedMesh is the one of the star whose group is not transformed at all.
C17_GroupLocalFrame ==
    merged.present =>
        /\ geometries = LocalGeometries(fractalStar.nodes)
        /\ merged.mesh = ManualMergeOf(LocalGeometries(fractalStar.nodes))

C17_Witness ==
    /\ merged.present
    /\ fractalStar.group.updates = 2
    /\ fractalStar.group.scale = R(11, 10)
    /\ fractalStar.group.y = RInt(12)
    /\ Len(fractalStar.group.matrixWorld) = 1
    /\ fractalStar.group.matrixWorld[1].updates >= 1
    /\ Len(merged.mesh.position) > 0

-----------------------------------------------------------------------------
(* Properties of the parameters and of the depth of the recursion *)

\* The numeric generation parameters the default policy names
PolicyKeys == {"maxLevel", "height", "radius", "ringCount", "branchesPerRing",
               "scaleFactor"}

\* params.k is missing, zero or undefined
NotSupplied(params, k) ==
    \/ k \notin DOMAIN params
    \/ k \in UndefinedKeys(params)
    \/ (k \in DOMAIN params /\ Falsy(k, params[k]))

BuiltTrees == {s \in Slots : trees[s].built # "none"}

\* C12: when a numeric generation parameter is missing, zero or undefined, the
\* parameter generation uses is the built-in default (tree: 3, 10, 4, 8, 6,
\* 0.6; star: 3, 1.2), and no error is raised.
C12_DefaultPolicy ==
    /\ \A s \in BuiltTrees :
          /\ trees[s].built # "threw"
          /\ \A k \in PolicyKeys :
                NotSupplied(input, k) =>
                    /\ ~IsUndefined(trees[s].params, k)
                    /\ trees[s].params[k] = Defaults[k]
    /\ StarBuilt =>
          \A k \in {"maxLevel", "radius"} :
              NotSupplied(options, k) => fractalStar[k] = StarDefaults[k]

\* The star's half of C12, which the code keeps
C12_StarDefaults ==
    StarBuilt =>
        \A k \in {"maxLevel", "radius"} :
            NotSupplied(options, k) => fractalStar[k] = StarDefaults[k]

\* C13: with maxLevel >= 1, a non-positive ringCount or branchesPerRing never
\* makes generation throw: the root has no children and the instance set is
\* the single root instance.
C13_NoChildrenWithoutBranching ==
    \A s \in BuiltTrees :
        LET p == trees[s].params
        IN  (/\ trees[s].gens > 0
             /\ ~IsUndefined(p, "maxLevel") /\ p.maxLevel >= 1
             /\ \/ (~IsUndefined(p, "ringCount") /\ p.ringCount <= 0)
                \/ (~IsUndefined(p, "branchesPerRing") /\ p.branchesPerRing <= 0))
            => /\ trees[s].built = "generate"
               /\ trees[s].matrices = <<Compose(Origin, Identity, RootScale(p))>>
               /\ trees[s].mesh.count = RInt(1)

C13_Witness ==
    \E s \in GeneratedTrees :
        /\ AllDefined(trees[s].params)
        /\ trees[s].params.maxLevel = 2
        /\ trees[s].params.ringCount = 2
        /\ trees[s].params.branchesPerRing = 0
        /\ Len(trees[s].matrices) = 1

\* C14: for every parameter object, one with maxLevel undefined included,
\* generation terminates and nothing is emitted at a level >= maxLevel: the
\* depth of the recursion is bounded by maxLevel.
C14_DepthBoundedByMaxLevel ==
    /\ \A s \in BuiltTrees :
          /\ trees[s].built # "threw"
          /\ ~IsUndefined(trees[s].params, "maxLevel") =>
                \A i \in 1..Len(calls[s]) : Len(calls[s][i]) < trees[s].params.maxLevel
    /\ StarBuilt =>
          \A i \in 1..Len(fractalStar.nodes) :
              fractalStar.nodes[i].level < fractalStar.maxLevel

\* The star's half of C14, which the code keeps
C14_StarDepthBounded ==
    StarBuilt =>
        \A i \in 1..Len(fractalStar.nodes) :
            fractalStar.nodes[i].level < fractalStar.maxLevel

-----------------------------------------------------------------------------
(* Properties of the scales and of taperStart *)

Front(q) == SubSeq(q, 1, Len(q) - 1)

\* x lies between a and b, whichever of the two is the larger
Between(x, a, b) == (RLe(a, x) /\ RLe(x, b)) \/ (RLe(b, x) /\ RLe(x, a))

Positive(x) == RLt(RZero, x)

\* The decay of every ring is in [0.3, 1], and every emitted child has the
\* scale of its parent times scaleFactor times the decay of its ring,
\* component-wise between 0.3 x scaleFactor x parent and scaleFactor x parent
DecayBoundsScale(s) ==
    LET p == trees[s].params
        c == calls[s]
        m == trees[s].matrices
    IN  \A i \in 1..Len(c) :
            c[i] # <<>> =>
                \E j \in 1..Len(c) :
                    /\ c[j] = Front(c[i])
                    /\ LET t == RingT(c[i][Len(c[i])][1], p.ringCount)
                           decay == SizeDecay(t)
                           f == RMul(p.scaleFactor, decay)
                       IN  /\ RLe(R(3, 10), decay) /\ RLe(decay, ROne)
                           /\ m[i].scale = MultiplyScalar(m[j].scale, f)
                           /\ \A k \in {"x", "y", "z"} :
                                 Between(m[i].scale[k],
                                         RMul(R(3, 10), RMul(p.scaleFactor, m[j].scale[k])),
                                         RMul(p.scaleFactor, m[j].scale[k]))

AllScalesPositive(s) ==
    \A i \in 1..Len(trees[s].matrices) :
        \A k \in {"x", "y", "z"} : Positive(trees[s].matrices[i].scale[k])

\* C18 as stated: the decay (1-t)*0.7+0.3 of every ring is in [0.3, 1], each
\* child's scale is parent scale x scaleFactor x decay, and with positive
\* radius, height and scaleFactor every emitted segment has strictly positive
\* scale components.
C18_PositiveScales ==
    \A s \in GeneratedTrees :
        LET p == trees[s].params
        IN  /\ DecayBoundsScale(s)
            /\ (Positive(p.radius) /\ Positive(p.height) /\ Positive(p.scaleFactor))
                  => AllScalesPositive(s)

\* C18 amended: the same, the emitted scale components being strictly
\* positive when spineWidthRatio is positive too.
C18_PositiveScalesWithWidth ==
    \A s \in GeneratedTrees :
        LET p == trees[s].params
        IN  /\ DecayBoundsScale(s)
            /\ (/\ Positive(p.radius) /\ Positive(p.height) /\ Positive(p.scaleFactor)
                /\ Positive(p.spineWidthRatio))
                  => AllScalesPositive(s)

C18_Witness ==
    \E s \in GeneratedTrees :
        /\ trees[s].params.spineWidthRatio = R(5, 10)
        /\ trees[s].params.scaleFactor = R(5, 10)
        /\ trees[s].params.ringCount = 3
        /\ Len(trees[s].matrices) = 4
        /\ calls[s][4] = << <<2, 0>> >>
        /\ trees[s].matrices[4].scale.y = RMul(R(3, 20), trees[s].matrices[1].scale.y)
        /\ AllScalesPositive(s)

-----------------------------------------------------------------------------
(* Properties of init() *)

\* A retrieval of tree.bin or star.json failed: the fetch rejected, the
\* response was not ok, the body could not be read, or star.json did not parse
Failed(file) == file.net = "reject" \/ ~file.ok \/ file.body = "fail"
RetrievalFailed == Failed(treeFile) \/ Failed(starFile)

\* C6: when a retrieval fails, init() does not propagate the error; it builds
\* the tree and the star by runtime generation from CONFIG.tree and CONFIG.star,
\* so both are set once init() has settled.
C6_FallbackOnRetrievalFailure ==
    /\ initResult # "rejected"
    /\ (pc = "done" /\ RetrievalFailed) =>
          /\ initResult = "resolved"
          /\ tree.set /\ tree.built = "generate" /\ tree.params = TreeParams(ConfigTree)
          /\ star.set /\ star.built = "generate" /\ star.params = StarParams(ConfigStar)

C6_Witness ==
    /\ pc = "done"
    /\ ~Failed(treeFile) /\ treeFile.bytes = 128
    /\ starFile.net = "ok" /\ starFile.ok /\ starFile.body = "fail"
    /\ requested = {"./tree.bin", "./star.json"}
    /\ tree.set /\ star.set /\ fallbacks = 1

\* The artifacts arrived, and one is malformed: a blob whose byte length is no
\* multiple of 64, or a star document without the position key
MalformedArtifact ==
    /\ ~RetrievalFailed
    /\ \/ treeFile.bytes % 64 # 0
       \/ starFile.null
       \/ "position" \notin DOMAIN starFile.doc

\* C7: a malformed artifact is never accepted: the fallback generation runs
\* exactly once and no geometry is built from the artifact.
C7_MalformedTriggersFallback ==
    (pc = "done" /\ MalformedArtifact) =>
        /\ fallbacks = 1
        /\ tree.built = "generate"
        /\ star.built = "generate"

\* Some constructor call of init() was given preloaded data
BuiltFromPreloaded == \E i \in 1..Len(constructed) : constructed[i].preloaded

\* C20: no FractalTree and no FractalStar is constructed from preloaded data
\* before the bodies of tree.bin and of star.json have both been retrieved:
\* while init() awaits nothing is constructed, and when a retrieval fails no
\* object is constructed from the artifact that did arrive.
C20_ReconstructionAfterRetrieval ==
    /\ pc # "done" => constructed = <<>>
    /\ BuiltFromPreloaded =>
          /\ ~RetrievalFailed
          /\ requested = {"./tree.bin", "./star.json"}
    /\ RetrievalFailed =>
          /\ ~BuiltFromPreloaded
          /\ tree.set => tree.built = "generate"
          /\ star.set => star.built = "generate"

C20_Witness ==
    /\ pc = "done"
    /\ constructed = <<Construction("FractalTree", TRUE), Construction("FractalStar", TRUE)>>
    /\ tree.built = "load" /\ star.built = "load"
    /\ treeFile.bytes = 64
    /\ fallbacks = 0

\* The retrieval of tree.bin has not completed: init() awaits the fetch or the
\* body of tree.bin
TreePending == pc \in {"awaitTreeFetch", "awaitTreeBody"}

\* C21: the request for star.json is issued without waiting for the retrieval
\* of tree.bin: it is out while tree.bin is still pending, and a failed
\* retrieval of tree.bin does not prevent it.
C21_StarRequestIndependent ==
    /\ TreePending => "./star.json" \in requested
    /\ (pc = "done" /\ Failed(treeFile)) => "./star.json" \in requested

-----------------------------------------------------------------------------
(* Properties of the scene *)

\* The FractalTree objects there are: a constructor that threw has left none
TreeObjects ==
    {s \in Slots : trees[s].built \in {"generate", "load"}
                   \/ (trees[s].built = "threw" /\ trees[s].mesh.id # 0)}

InScene(mesh) == \E i \in 1..Len(scene) : scene[i] = mesh

\* C22: after any sequence of generate() calls on a FractalTree, started from
\* generation or from preloaded matrices, the scene holds exactly one mesh of
\* the tree, the one built last: the meshes before it are removed and disposed
\* of, and the count of a generated mesh is matrices.length.
C22_SingleCurrentMesh ==
    /\ Len(scene) = Cardinality(TreeObjects)
    /\ \A i \in 1..Len(scene) : scene[i].id \notin disposed
    /\ \A s \in TreeObjects :
          /\ InScene(trees[s].mesh)
          /\ trees[s].built = "generate" =>
                trees[s].mesh.count = RInt(Len(trees[s].matrices))

\* The same for the trees whose generate() calls all returned
C22_SingleMeshUnlessThrown ==
    /\ \A i \in 1..Len(scene) : scene[i].id \notin disposed
    /\ \A s \in Slots :
          trees[s].built \in {"generate", "load"} =>
              /\ InScene(trees[s].mesh)
              /\ Cardinality({i \in 1..Len(scene) : scene[i].id = trees[s].mesh.id}) = 1
              /\ trees[s].built = "generate" =>
                    trees[s].mesh.count = RInt(Len(trees[s].matrices))
    /\ Len(scene) = Cardinality({s \in Slots : trees[s].built \in {"generate", "load"}})

-----------------------------------------------------------------------------
(* What a merged geometry draws *)

Range(q) == {q[i] : i \in 1..Len(q)}

\* The vertices a geometry draws: those its index names, and all of them when
\* it has no index
DrawnVertices(position, index) ==
    IF index.has THEN Range(index.array) ELSE 0..(Count(position, 3) - 1)

\* C23: manualMerge drops no geometry: every vertex an input geometry draws,
\* at its place in the output, is drawn by the output, also when indexed and
\* non-indexed geometries are mixed.
C23_NoGeometryDropped ==
    merged.present =>
        \A k \in 1..Len(geometries) :
            { v + VertexOffset(geometries, k) :
                v \in DrawnVertices(geometries[k].position, geometries[k].index) }
                \subseteq DrawnVertices(merged.mesh.position, merged.mesh.index)

-----------------------------------------------------------------------------
(* The scene after init() *)

ChildrenOfKind(kind) == {i \in 1..Len(scene) : scene[i].kind = kind}

-----------------------------------------------------------------------------
(* Children of one segment *)

\* Entries i and j of this.matrices are children of the same call, pushed for
\* different (ring, branch) pairs
Siblings(c, i, j) ==
    /\ i # j
    /\ c[i] # <<>> /\ c[j] # <<>>
    /\ Front(c[i]) = Front(c[j])

\* The entry was pushed for a child of the top ring, i = ringCount - 1, t = 1
InTopRing(path, p) == path[Len(path)][1] = p.ringCount - 1

Bushy(p) == AllDefined(p) /\ p.ringCount >= 2 /\ p.branchesPerRing >= 2

\* C25 as stated: within one segment, with ringCount >= 2 and
\* branchesPerRing >= 2, distinct (ring, branch) pairs give distinct child
\* transforms, so this.matrices holds no entry twice among the children of a
\* segment.
C25_DistinctChildren ==
    \A s \in GeneratedTrees :
        Bushy(trees[s].params) =>
            \A i, j \in 1..Len(calls[s]) :
                Siblings(calls[s], i, j) => trees[s].matrices[i] # trees[s].matrices[j]

\* C25 amended: distinct (ring, branch) pairs give distinct child transforms
\* unless both children lie in the top ring; the children of the top ring
\* have one transform.
C25_DistinctBelowTop ==
    \A s \in GeneratedTrees :
        Bushy(trees[s].params) =>
            \A i, j \in 1..Len(calls[s]) :
                Siblings(calls[s], i, j) =>
                    (trees[s].matrices[i] = trees[s].matrices[j]
                        <=> (InTopRing(calls[s][i], trees[s].params)
                             /\ InTopRing(calls[s][j], trees[s].params)))

C25_Witness ==
    /\ trees[1].built = "generate"
    /\ Bushy(trees[1].params)
    /\ Len(trees[1].matrices) = 5
    /\ calls[1][2] = << <<0, 0>> >> /\ calls[1][3] = << <<0, 1>> >>
    /\ trees[1].matrices[2] # trees[1].matrices[3]
    /\ calls[1][4] = << <<1, 0>> >> /\ calls[1][5] = << <<1, 1>> >>
    /\ trees[1].matrices[4] = trees[1].matrices[5]

-----------------------------------------------------------------------------
(* Properties of the controls *)

BoundTo(flag) == {code \in DOMAIN KeyBindings : KeyBindings[code] = flag}

\* C26: after any sequence of keydown and keyup events, each movement flag is
\* true exactly when at least one of the keys bound to it is held.
C26_FlagIffKeyHeld ==
    \A flag \in Flags : controls[flag] <=> (keys \cap BoundTo(flag) # {})

====
